---- MODULE Spec2Model ----
(***************************************************************************)
(* Model of the datasheet-to-footprint application: the App component      *)
(* (src/App.tsx) and the cross-probing visual preview                      *)
(* (src/components/VisualPreview.tsx).                                     *)
(*                                                                         *)
(* Representation.  A JavaScript string is a sequence of one-character     *)
(* strings, so that the regular expressions of the footprint parser and    *)
(* parseFloat are computed character by character.  A JavaScript number is *)
(* an exact rational or NaN: [nan, n, d] with d > 0 and n/d in lowest      *)
(* terms.  Rounding of IEEE doubles is not modelled.                       *)
(***************************************************************************)
EXTENDS Integers, Sequences, FiniteSets, TLC

\* ------------------------------------------------------------------------
\* Numbers: exact rationals and NaN
\* ------------------------------------------------------------------------

\* const v = ...: the value is computed once and named in Body.
With(v, Body(_)) == Body(v)

Abs(x) == IF x < 0 THEN -x ELSE x

RECURSIVE GCD(_, _)
GCD(a, b) == IF b = 0 THEN a ELSE GCD(b, a % b)

NaN == [nan |-> TRUE, n |-> 0, d |-> 1]

\* The number n/d (d # 0) in lowest terms.
Q(n, d) ==
  LET g == GCD(Abs(n), Abs(d))
      s == IF d < 0 THEN -1 ELSE 1
  IN  [nan |-> FALSE, n |-> (s * n) \div g, d |-> (s * d) \div g]

Int2F(k) == [nan |-> FALSE, n |-> k, d |-> 1]

FAdd(a, b) == IF a.nan \/ b.nan THEN NaN ELSE Q(a.n * b.d + b.n * a.d, a.d * b.d)
FSub(a, b) == IF a.nan \/ b.nan THEN NaN ELSE Q(a.n * b.d - b.n * a.d, a.d * b.d)
FMul(a, b) == IF a.nan \/ b.nan THEN NaN ELSE Q(a.n * b.n, a.d * b.d)
\* Every divisor of the modelled code is a non-zero literal or a box extent of
\* at least 3 (Transform), so the quotient by zero is never taken.
FDiv(a, b) == IF a.nan \/ b.nan \/ b.n = 0 THEN NaN ELSE Q(a.n * b.d, a.d * b.n)

\* JavaScript comparisons: false when either side is NaN.
FLeq(a, b) == ~a.nan /\ ~b.nan /\ a.n * b.d <= b.n * a.d
FGeq(a, b) == FLeq(b, a)
FLt(a, b)  == ~a.nan /\ ~b.nan /\ a.n * b.d < b.n * a.d
FGt(a, b)  == FLt(b, a)

\* Math.min / Math.max of two numbers: NaN if either argument is NaN.
FMin2(a, b) == IF a.nan \/ b.nan THEN NaN ELSE IF FLeq(a, b) THEN a ELSE b
FMax2(a, b) == IF a.nan \/ b.nan THEN NaN ELSE IF FLeq(a, b) THEN b ELSE a

RECURSIVE FMinSeq(_)
FMinSeq(s) == IF Len(s) = 1 THEN s[1] ELSE FMin2(s[1], FMinSeq(Tail(s)))

RECURSIVE FMaxSeq(_)
FMaxSeq(s) == IF Len(s) = 1 THEN s[1] ELSE FMax2(s[1], FMaxSeq(Tail(s)))

\* ------------------------------------------------------------------------
\* Characters and strings
\* ------------------------------------------------------------------------

Digits == <<"0", "1", "2", "3", "4", "5", "6", "7", "8", "9">>
DigitChars == {Digits[i] : i \in 1..10}
DigitVal(c) == (CHOOSE i \in 1..10 : Digits[i] = c) - 1

\* \s, [-0-9.] and [\w\d] restricted to the characters the model writes.
SpaceChars == {" ", "\n", "\t"}
NumChars == DigitChars \cup {"-", "."}
WordChars == DigitChars \cup {"_"} \cup
  {"a", "b", "c", "d", "e", "f", "g", "h", "i", "j", "k", "l", "m",
   "n", "o", "p", "q", "r", "s", "t", "u", "v", "w", "x", "y", "z",
   "A", "B", "C", "D", "E", "F", "G", "H", "I", "J", "K", "L", "M",
   "N", "O", "P", "Q", "R", "S", "T", "U", "V", "W", "X", "Y", "Z"}

InClass(cls, c) ==
  CASE cls = "space" -> c \in SpaceChars
    [] cls = "num"   -> c \in NumChars
    [] cls = "word"  -> c \in WordChars
    [] cls = "digit" -> c \in DigitChars

\* The first index >= i whose character is not in the class (Len(t)+1 at the
\* end of the text): the end of a greedy run cls* started at i.
RECURSIVE RunEnd(_, _, _)
RunEnd(t, i, cls) ==
  IF i <= Len(t) /\ InClass(cls, t[i]) THEN RunEnd(t, i + 1, cls) ELSE i

\* The text has the literal lit at index i.
Lit(t, i, lit) ==
  /\ i + Len(lit) - 1 <= Len(t)
  /\ \A k \in 1..Len(lit) : t[i + k - 1] = lit[k]

\* Number.prototype.toString for a natural number.
RECURSIVE NatToString(_)
NatToString(k) ==
  IF k < 10 THEN <<Digits[k + 1]>>
  ELSE NatToString(k \div 10) \o <<Digits[(k % 10) + 1]>>

\* ------------------------------------------------------------------------
\* parseFloat on a string of the characters [-0-9.]
\* ------------------------------------------------------------------------

RECURSIVE DigitsValue(_, _, _)
\* The value of the digits t[i..j-1] read as a decimal integer.
DigitsValue(t, i, j) ==
  IF j <= i THEN 0 ELSE DigitsValue(t, i, j - 1) * 10 + DigitVal(t[j - 1])

RECURSIVE Pow10(_)
Pow10(k) == IF k = 0 THEN 1 ELSE 10 * Pow10(k - 1)

\* parseFloat(s): the longest prefix that is a decimal literal (sign, integer
\* digits, optional "." and fraction digits, at least one digit in all);
\* NaN when there is no such prefix.  i0..i1-1 are the integer digits and
\* f0..f1-1 the fraction digits.
parseFloat(s) ==
  With(IF Len(s) >= 1 /\ s[1] = "-" THEN 2 ELSE 1, LAMBDA i0 :
  With(RunEnd(s, i0, "digit"), LAMBDA i1 :
  With(IF i1 <= Len(s) /\ s[i1] = "." THEN i1 + 1 ELSE i1, LAMBDA f0 :
  With(IF f0 > i1 THEN RunEnd(s, f0, "digit") ELSE i1, LAMBDA f1 :
    IF i1 = i0 /\ f1 = f0 THEN NaN
    ELSE With(Q(DigitsValue(s, i0, i1) * Pow10(f1 - f0) + DigitsValue(s, f0, f1),
                Pow10(f1 - f0)), LAMBDA mag :
           IF i0 = 2 THEN FSub(Int2F(0), mag) ELSE mag)))))

\* ------------------------------------------------------------------------
\* The footprint-text parser of Footprint2D (two global regular expressions)
\* ------------------------------------------------------------------------

NoMatch == [ok |-> FALSE]

Quote == "\""

\* ([-0-9.]+) at index i.
MatchNum(t, i) ==
  With(RunEnd(t, i, "num"), LAMBDA e :
    IF e > i THEN [ok |-> TRUE, end |-> e, cap |-> SubSeq(t, i, e - 1)] ELSE NoMatch)

\* \s+([-0-9.]+) at index i.
MatchSpNum(t, i) ==
  With(RunEnd(t, i, "space"), LAMBDA e :
    IF e > i THEN MatchNum(t, e) ELSE NoMatch)

\* <lit>\s+([-0-9.]+)\s+([-0-9.]+) at index i: the head shared by the
\* (at, (size, (start and (end sub-records.
MatchPair(t, i, lit) ==
  IF ~Lit(t, i, lit) THEN NoMatch
  ELSE With(MatchSpNum(t, i + Len(lit)), LAMBDA a :
         IF ~a.ok THEN NoMatch
         ELSE With(MatchSpNum(t, a.end), LAMBDA b :
                IF ~b.ok THEN NoMatch
                ELSE [ok |-> TRUE, end |-> b.end, c1 |-> a.cap, c2 |-> b.cap]))

\* <lit>\s+([-0-9.]+)\s+([-0-9.]+)\) at index i.
MatchPairClosed(t, i, lit) ==
  With(MatchPair(t, i, lit), LAMBDA m :
    IF m.ok /\ Lit(t, m.end, <<")">>)
      THEN [ok |-> TRUE, end |-> m.end + 1, c1 |-> m.c1, c2 |-> m.c2]
      ELSE NoMatch)

\* A variant of the position sub-record below without the optional third
\* number.
MatchAtNoRotation(t, i) == MatchPairClosed(t, i, <<"(", "a", "t">>)

\* \(at\s+([-0-9.]+)\s+([-0-9.]+)(?:\s+[-0-9.]+)?\) at index i.  The optional
\* third number is tried first (greedy); without it the ")" must follow the
\* second number directly.
MatchAt(t, i) ==
  With(MatchPair(t, i, <<"(", "a", "t">>), LAMBDA m :
    IF ~m.ok THEN NoMatch
    ELSE With(MatchSpNum(t, m.end), LAMBDA r :
           IF r.ok /\ Lit(t, r.end, <<")">>)
             THEN [ok |-> TRUE, end |-> r.end + 1, c1 |-> m.c1, c2 |-> m.c2]
           ELSE IF Lit(t, m.end, <<")">>)
             THEN [ok |-> TRUE, end |-> m.end + 1, c1 |-> m.c1, c2 |-> m.c2]
           ELSE NoMatch))

\* \(size\s+([-0-9.]+)\s+([-0-9.]+)\) at index i.
MatchSize(t, i) == MatchPairClosed(t, i, <<"(", "s", "i", "z", "e">>)

\* \(pad\s+("?[\w\d]+"?) at index i: s is the index after the blanks, w the
\* index after the optional opening quote, e the end of the word run and z
\* the index after the optional closing quote.
MatchPadHead(t, i) ==
  IF ~Lit(t, i, <<"(", "p", "a", "d">>) THEN NoMatch
  ELSE With(RunEnd(t, i + 4, "space"), LAMBDA s :
       With(IF Lit(t, s, <<Quote>>) THEN s + 1 ELSE s, LAMBDA w :
       With(RunEnd(t, w, "word"), LAMBDA e :
       With(IF Lit(t, e, <<Quote>>) THEN e + 1 ELSE e, LAMBDA z :
         IF s > i + 4 /\ e > w
           THEN [ok |-> TRUE, end |-> z, cap |-> SubSeq(t, s, z - 1)]
           ELSE NoMatch))))

\* The least element of a non-empty set of indices.
MinOf(S) == CHOOSE x \in S : \A y \in S : x <= y

\* [\s\S]*?\(size ...\) from index i: the lazy run stops at the first index
\* >= i where a size sub-record matches.
LazySize(t, i) ==
  With({k \in i..Len(t) : MatchSize(t, k).ok}, LAMBDA at :
    IF at = {} THEN NoMatch ELSE MatchSize(t, MinOf(at)))

\* The position sub-record at index k is followed, somewhere, by a size
\* sub-record.
AtThenSize(t, k) ==
  With(MatchAt(t, k), LAMBDA a : a.ok /\ LazySize(t, a.end).ok)

\* [\s\S]*?\(at ...\)[\s\S]*?\(size ...\) from index i: the first index >= i
\* with a position sub-record after which a size sub-record is found (when
\* none follows one position sub-record the scan backtracks to a later one).
LazyAtSize(t, i) ==
  With({k \in i..Len(t) : AtThenSize(t, k)}, LAMBDA at :
    IF at = {} THEN NoMatch
    ELSE With(MatchAt(t, MinOf(at)), LAMBDA a :
         With(LazySize(t, a.end), LAMBDA z :
           [ok |-> TRUE, end |-> z.end,
            c2 |-> a.c1, c3 |-> a.c2, c4 |-> z.c1, c5 |-> z.c2])))

\* padRegex anchored at index i.
MatchPad(t, i) ==
  With(MatchPadHead(t, i), LAMBDA h :
    IF ~h.ok THEN NoMatch
    ELSE With(LazyAtSize(t, h.end), LAMBDA r :
           IF ~r.ok THEN NoMatch
           ELSE [ok |-> TRUE, end |-> r.end, c1 |-> h.cap,
                 c2 |-> r.c2, c3 |-> r.c3, c4 |-> r.c4, c5 |-> r.c5]))

\* match[1].replace(/"/g, '')
StripQuotes(s) == SelectSeq(s, LAMBDA c : c # Quote)

\* The object pushed for one padRegex match.
PadOfMatch(m) ==
  [num    |-> StripQuotes(m.c1),
   x      |-> parseFloat(m.c2),
   y      |-> parseFloat(m.c3),
   width  |-> parseFloat(m.c4),
   height |-> parseFloat(m.c5)]

\* while ((match = padRegex.exec(kicadMod)) !== null) pads.push(...): each
\* exec finds the leftmost match at or after lastIndex, and lastIndex becomes
\* the end of that match.
RECURSIVE ExecPads(_, _)
ExecPads(t, i) ==
  With({k \in i..Len(t) : MatchPad(t, k).ok}, LAMBDA at :
    IF at = {} THEN <<>>
    ELSE With(MatchPad(t, MinOf(at)), LAMBDA m :
           <<PadOfMatch(m)>> \o ExecPads(t, m.end)))

ParsePads(kicadMod) == ExecPads(kicadMod, 1)

\* lineRegex anchored at index i:
\* \(fp_line\s+\(start\s+N\s+N\)\s+\(end\s+N\s+N\)
MatchLine(t, i) ==
  IF ~Lit(t, i, <<"(", "f", "p", "_", "l", "i", "n", "e">>) THEN NoMatch
  ELSE With(RunEnd(t, i + 8, "space"), LAMBDA s :
       With(MatchPairClosed(t, s, <<"(", "s", "t", "a", "r", "t">>), LAMBDA a :
         IF s = i + 8 \/ ~a.ok THEN NoMatch
         ELSE With(RunEnd(t, a.end, "space"), LAMBDA u :
              With(MatchPairClosed(t, u, <<"(", "e", "n", "d">>), LAMBDA b :
                IF u = a.end \/ ~b.ok THEN NoMatch
                ELSE [ok |-> TRUE, end |-> b.end,
                      c1 |-> a.c1, c2 |-> a.c2, c3 |-> b.c1, c4 |-> b.c2]))))

LineOfMatch(m) ==
  [x1 |-> parseFloat(m.c1), y1 |-> parseFloat(m.c2),
   x2 |-> parseFloat(m.c3), y2 |-> parseFloat(m.c4)]

RECURSIVE ExecLines(_, _)
ExecLines(t, i) ==
  With({k \in i..Len(t) : MatchLine(t, k).ok}, LAMBDA at :
    IF at = {} THEN <<>>
    ELSE With(MatchLine(t, MinOf(at)), LAMBDA m :
           <<LineOfMatch(m)>> \o ExecLines(t, m.end)))

ParseLines(kicadMod) == ExecLines(kicadMod, 1)

\* ------------------------------------------------------------------------
\* Footprint texts: what the external generator may hand over as kicadMod
\* ------------------------------------------------------------------------

\* A numeric field of a record: a decimal m / 10^k, or raw characters.
Dec(m, k) == [raw |-> FALSE, m |-> m, k |-> k, txt |-> <<>>]
Raw(txt)  == [raw |-> TRUE, m |-> 0, k |-> 0, txt |-> txt]

\* The value a decimal field denotes.
DecValue(f) == Q(f.m, Pow10(f.k))

RECURSIVE ZeroPad(_, _)
ZeroPad(s, k) == IF Len(s) >= k THEN s ELSE ZeroPad(<<"0">> \o s, k)

\* The decimal text of m / 10^k: sign, integer digits, "." and k digits.
FormatDecimal(m, k) ==
  LET a == Abs(m)
      p == Pow10(k)
  IN  (IF m < 0 THEN <<"-">> ELSE <<>>)
      \o NatToString(a \div p)
      \o (IF k = 0 THEN <<>> ELSE <<".">> \o ZeroPad(NatToString(a % p), k))

WriteNum(f) == IF f.raw THEN f.txt ELSE FormatDecimal(f.m, f.k)

RECURSIVE WriteNums(_)
\* The fields of a sub-record, each preceded by one blank.
WriteNums(fs) ==
  IF fs = <<>> THEN <<>> ELSE <<" ">> \o WriteNum(fs[1]) \o WriteNums(Tail(fs))

\* One record of the text.  A pad record is
\*   (pad <id> smd [(at x y [rot])] [(size w h)] (layers F))
\* where at = <<>> or size = <<>> leaves the sub-record out; a line record is
\*   (fp_line (start x y) (end x y) (width 1))
WriteRecord(r) ==
  CASE r.k = "pad" ->
         <<"(", "p", "a", "d", " ">>
         \o (IF r.quoted THEN <<Quote>> \o r.id \o <<Quote>> ELSE r.id)
         \o <<" ", "s", "m", "d">>
         \o (IF r.at = <<>> THEN <<>>
             ELSE <<" ", "(", "a", "t">> \o WriteNums(r.at) \o <<")">>)
         \o (IF r.size = <<>> THEN <<>>
             ELSE <<"\n", "(", "s", "i", "z", "e">> \o WriteNums(r.size) \o <<")">>)
         \o <<" ", "(", "l", "a", "y", "e", "r", "s", " ", "F", ")", ")", "\n">>
    [] r.k = "line" ->
         <<"(", "f", "p", "_", "l", "i", "n", "e", " ", "(", "s", "t", "a", "r", "t">>
         \o WriteNums(r.from) \o <<")", " ", "(", "e", "n", "d">>
         \o WriteNums(r.to)
         \o <<")", " ", "(", "w", "i", "d", "t", "h", " ", "1", ")", ")", "\n">>
    [] r.k = "junk" -> r.txt

RECURSIVE WriteText(_)
WriteText(rs) == IF rs = <<>> THEN <<>> ELSE WriteRecord(rs[1]) \o WriteText(Tail(rs))

PadRec(id, quoted, at, size) ==
  [k |-> "pad", id |-> id, quoted |-> quoted, at |-> at, size |-> size,
   from |-> <<>>, to |-> <<>>, txt |-> <<>>]
LineRec(from, to) ==
  [k |-> "line", id |-> <<>>, quoted |-> FALSE, at |-> <<>>, size |-> <<>>,
   from |-> from, to |-> to, txt |-> <<>>]
JunkRec(txt) ==
  [k |-> "junk", id |-> <<>>, quoted |-> FALSE, at |-> <<>>, size |-> <<>>,
   from |-> <<>>, to |-> <<>>, txt |-> txt]

\* ------------------------------------------------------------------------
\* Footprint2D: bounds, view transform, hit-test
\* ------------------------------------------------------------------------

\* <canvas width={400} height={400}>
FpCanvasSize == 400
FpPadding == 40
FpFallback == 5

Half(a) == FDiv(a, Int2F(2))
\* The margin 1.5 added on each side of the bounding box.
FpMargin == Q(3, 2)

MapSeq(s, Op(_)) == [i \in 1..Len(s) |-> Op(s[i])]

\* A variant of the box below without the fallback: with no geometry the box
\* is the single point (0, 0).
BoundsNoFallback(pads, lines) ==
  IF Len(pads) > 0 \/ Len(lines) > 0
    THEN With(MapSeq(pads, LAMBDA p : FSub(p.x, Half(p.width)))
              \o MapSeq(pads, LAMBDA p : FAdd(p.x, Half(p.width)))
              \o MapSeq(lines, LAMBDA l : l.x1)
              \o MapSeq(lines, LAMBDA l : l.x2), LAMBDA coordsX :
         With(MapSeq(pads, LAMBDA p : FSub(p.y, Half(p.height)))
              \o MapSeq(pads, LAMBDA p : FAdd(p.y, Half(p.height)))
              \o MapSeq(lines, LAMBDA l : l.y1)
              \o MapSeq(lines, LAMBDA l : l.y2), LAMBDA coordsY :
           [minX |-> FSub(FMinSeq(coordsX), FpMargin),
            maxX |-> FAdd(FMaxSeq(coordsX), FpMargin),
            minY |-> FSub(FMinSeq(coordsY), FpMargin),
            maxY |-> FAdd(FMaxSeq(coordsY), FpMargin)]))
    ELSE [minX |-> Int2F(0), maxX |-> Int2F(0), minY |-> Int2F(0), maxY |-> Int2F(0)]

\* let minX = -5, maxX = 5, ...; if (pads.length > 0 || lines.length > 0) {...}
Bounds(pads, lines) ==
  IF Len(pads) > 0 \/ Len(lines) > 0
    THEN With(MapSeq(pads, LAMBDA p : FSub(p.x, Half(p.width)))
              \o MapSeq(pads, LAMBDA p : FAdd(p.x, Half(p.width)))
              \o MapSeq(lines, LAMBDA l : l.x1)
              \o MapSeq(lines, LAMBDA l : l.x2), LAMBDA coordsX :
         With(MapSeq(pads, LAMBDA p : FSub(p.y, Half(p.height)))
              \o MapSeq(pads, LAMBDA p : FAdd(p.y, Half(p.height)))
              \o MapSeq(lines, LAMBDA l : l.y1)
              \o MapSeq(lines, LAMBDA l : l.y2), LAMBDA coordsY :
           [minX |-> FSub(FMinSeq(coordsX), FpMargin),
            maxX |-> FAdd(FMaxSeq(coordsX), FpMargin),
            minY |-> FSub(FMinSeq(coordsY), FpMargin),
            maxY |-> FAdd(FMaxSeq(coordsY), FpMargin)]))
    ELSE [minX |-> Int2F(-FpFallback), maxX |-> Int2F(FpFallback),
          minY |-> Int2F(-FpFallback), maxY |-> Int2F(FpFallback)]

\* scale, centerX, centerY of the effect.
Transform(b) ==
  With(FMin2(FDiv(Int2F(FpCanvasSize - FpPadding), FSub(b.maxX, b.minX)),
             FDiv(Int2F(FpCanvasSize - FpPadding), FSub(b.maxY, b.minY))), LAMBDA scale :
    [centerX |-> FSub(Half(Int2F(FpCanvasSize)), FMul(Half(FAdd(b.minX, b.maxX)), scale)),
     centerY |-> FSub(Half(Int2F(FpCanvasSize)), FMul(Half(FAdd(b.minY, b.maxY)), scale)),
     scale   |-> scale])

\* useRef({ centerX: 0, centerY: 0, scale: 1 })
InitialTransform == [centerX |-> Int2F(0), centerY |-> Int2F(0), scale |-> Int2F(1)]

\* The screen-space rectangle of a pad: px, py, pw, ph.
PadRect(pad, tr) ==
  [px |-> FSub(FAdd(tr.centerX, FMul(pad.x, tr.scale)), Half(FMul(pad.width, tr.scale))),
   py |-> FSub(FAdd(tr.centerY, FMul(pad.y, tr.scale)), Half(FMul(pad.height, tr.scale))),
   pw |-> FMul(pad.width, tr.scale),
   ph |-> FMul(pad.height, tr.scale)]

\* x >= px && x <= px + pw && y >= py && y <= py + ph
InPadRect(x, y, pad, tr) ==
  With(PadRect(pad, tr), LAMBDA r :
    /\ FGeq(x, r.px) /\ FLeq(x, FAdd(r.px, r.pw))
    /\ FGeq(y, r.py) /\ FLeq(y, FAdd(r.py, r.ph)))

\* A variant of the search below that returns the last pad whose rectangle
\* contains the point.
RECURSIVE FindPadLast(_, _, _, _, _)
FindPadLast(pads, tr, x, y, i) ==
  IF i > Len(pads) THEN 0
  ELSE With(FindPadLast(pads, tr, x, y, i + 1), LAMBDA rest :
         IF rest # 0 THEN rest
         ELSE IF InPadRect(x, y, pads[i], tr) THEN i ELSE 0)

\* Array.prototype.find from index i: the index of the first pad whose
\* rectangle contains the point, 0 when there is none.
RECURSIVE FindPad(_, _, _, _, _)
FindPad(pads, tr, x, y, i) ==
  IF i > Len(pads) THEN 0
  ELSE IF InPadRect(x, y, pads[i], tr) THEN i
  ELSE FindPad(pads, tr, x, y, i + 1)

\* The pointer position in canvas coordinates:
\* ((e.clientX - rect.left) / rect.width) * canvas.width
ClientToCanvas(client, rectStart, rectSize, canvasSize) ==
  FMul(FDiv(FSub(client, rectStart), rectSize), canvasSize)

\* The effect of Footprint2D on a footprint text: what it stores in padsRef
\* and transformRef, and the lines it draws.
RunFootprint2DEffect(kicadMod) ==
  With(ParsePads(kicadMod), LAMBDA pads :
  With(ParseLines(kicadMod), LAMBDA lines :
    [pads |-> pads, lines |-> lines, transform |-> Transform(Bounds(pads, lines))]))

\* ------------------------------------------------------------------------
\* SchematicSymbol2D: layout, drawing, hit-test
\* ------------------------------------------------------------------------

\* A variant of the list below without 'passive'.
leftSideTypesNoPassive == {"input", "bidirectional", "power_in"}

leftSideTypes == {"input", "bidirectional", "passive", "power_in"}

pinSpacing == 35
boxWidth == 160
pinLen == 30
SchCanvasWidth == 400
SchMinBoxHeight == 100
SchCanvasExtra == 100
\* The click handler's target: 15 beyond the box edge, radius 20.
SchHitOffset == 15
SchHitRadius == 20
\* The size of a canvas element whose width and height were never set.
DefaultCanvasWidth == 300
DefaultCanvasHeight == 150

\* A variant of the rounding below: Math.floor(n / 2).
FloorHalf(n) == n \div 2

\* Math.ceil(n / 2)
CeilHalf(n) == (n + 1) \div 2

Max2(a, b) == IF a >= b THEN a ELSE b

\* A variant of the layout below without the rebalancing splice.
LayoutNoRebalance(pins) ==
  [left  |-> SelectSeq(pins, LAMBDA p : p.electrical_type \in leftSideTypes),
   right |-> SelectSeq(pins, LAMBDA p : p.electrical_type \notin leftSideTypes)]

\* leftPins / rightPins after the filter and the rebalancing splice.
Layout(pins) ==
  With(SelectSeq(pins, LAMBDA p : p.electrical_type \in leftSideTypes), LAMBDA l0 :
  With(SelectSeq(pins, LAMBDA p : p.electrical_type \notin leftSideTypes), LAMBDA r0 :
    IF Len(l0) = 0 /\ Len(r0) > 0
      THEN [left  |-> SubSeq(r0, 1, CeilHalf(Len(r0))),
            right |-> SubSeq(r0, CeilHalf(Len(r0)) + 1, Len(r0))]
    ELSE IF Len(r0) = 0 /\ Len(l0) > 0
      THEN [left  |-> SubSeq(l0, CeilHalf(Len(l0)) + 1, Len(l0)),
            right |-> SubSeq(l0, 1, CeilHalf(Len(l0)))]
    ELSE [left |-> l0, right |-> r0]))

\* y of slot i (0-based) of a side of n pins: centerY - (n-1)*35/2 + i*35
SlotY(centerY, n, i) ==
  FAdd(FSub(centerY, Half(Int2F((n - 1) * pinSpacing))), Int2F(i * pinSpacing))

\* One drawn lead of drawSidePins.
DrawnLead(pin, isLeft, n, i, centerX, centerY, sel) ==
  With(IF isLeft THEN FSub(centerX, Half(Int2F(boxWidth)))
                 ELSE FAdd(centerX, Half(Int2F(boxWidth))), LAMBDA x :
    [num      |-> pin.pin_number,
     name     |-> pin.pin_name,
     isLeft   |-> isLeft,
     x        |-> x,
     outerX   |-> IF isLeft THEN FSub(x, Int2F(pinLen)) ELSE FAdd(x, Int2F(pinLen)),
     y        |-> SlotY(centerY, n, i),
     selected |-> sel = pin.pin_number])

\* The canvas of a freshly mounted SchematicSymbol2D.
BlankSchCanvas == [width |-> DefaultCanvasWidth, height |-> DefaultCanvasHeight,
                   leads |-> <<>>]

\* The effect of SchematicSymbol2D: with no pins it returns before touching
\* the canvas; otherwise it sizes, clears and redraws it.
\* One side of drawSidePins: the leads of sidePins around (cx, cy).
DrawSidePins(sidePins, isLeft, cx, cy, sel) ==
  [i \in 1..Len(sidePins) |->
     DrawnLead(sidePins[i], isLeft, Len(sidePins), i - 1, cx, cy, sel)]

SchematicEffect(canvas, pins, sel) ==
  IF Len(pins) = 0 THEN canvas
  ELSE With(Layout(pins), LAMBDA lay :
       With(Max2(Len(lay.left), Len(lay.right)), LAMBDA maxSidePins :
       With(Max2(SchMinBoxHeight, (maxSidePins + 1) * pinSpacing), LAMBDA boxHeight :
       With(boxHeight + SchCanvasExtra, LAMBDA height :
       With(Half(Int2F(SchCanvasWidth)), LAMBDA cx :
       With(Half(Int2F(height)), LAMBDA cy :
         [width  |-> SchCanvasWidth,
          height |-> height,
          leads  |-> DrawSidePins(lay.left, TRUE, cx, cy, sel)
                     \o DrawSidePins(lay.right, FALSE, cx, cy, sel)]))))))

\* dist < 20 for the click (x, y) and the target (px, py); the square root is
\* monotone, so the squares are compared.
WithinHit(x, y, px, py) ==
  With(FSub(x, px), LAMBDA dx :
  With(FSub(y, py), LAMBDA dy :
    FLt(FAdd(FMul(dx, dx), FMul(dy, dy)), Int2F(SchHitRadius * SchHitRadius))))

\* The hit target of slot i (0-based) of a side in the click handler.
SchTarget(canvas, isLeft, n, i) ==
  With(Half(Int2F(canvas.width)), LAMBDA cx :
  With(Half(Int2F(canvas.height)), LAMBDA cy :
    [px |-> IF isLeft
              THEN FSub(FSub(cx, Half(Int2F(boxWidth))), Int2F(SchHitOffset))
              ELSE FAdd(FAdd(cx, Half(Int2F(boxWidth))), Int2F(SchHitOffset)),
     py |-> SlotY(cy, n, i)]))

\* The pin numbers the click handler passes to onPinSelect, in call order:
\* [...leftPins, ...rightPins].forEach(... if (dist < 20) onPinSelect(...)).
\* The pins of one side whose target the click (x, y) is within, in order.
SideHits(canvas, sidePins, isLeft, x, y) ==
  With(SelectSeq([i \in 1..Len(sidePins) |-> i],
         LAMBDA i : With(SchTarget(canvas, isLeft, Len(sidePins), i - 1),
                      LAMBDA tg : WithinHit(x, y, tg.px, tg.py))), LAMBDA hit :
    [k \in 1..Len(hit) |-> sidePins[hit[k]].pin_number])

SchematicReports(canvas, pins, x, y) ==
  With(Layout(pins), LAMBDA lay :
    SideHits(canvas, lay.left, TRUE, x, y) \o SideHits(canvas, lay.right, FALSE, x, y))

\* ------------------------------------------------------------------------
\* ComponentModel (3D): the leads
\* ------------------------------------------------------------------------

DefaultPinCount == 8

\* const pinCount = data.pinCount || 8
LeadCount(data) == IF data.pinCount = 0 THEN DefaultPinCount ELSE data.pinCount

\* const pinNum = (i + 1).toString() for the lead of 0-based index i.
LeadPinNum(i) == NatToString(i + 1)

\* const sc = 0.5
sc == Q(1, 2)

\* data.dimensions?.<field>?.nominal || fallback: the fallback stands in for
\* a missing dimension and for a nominal value of 0 or NaN.  A data object
\* of the model holds the nominal values it has in its dimensions field.
Nominal(data, field, fallback) ==
  IF "dimensions" \in DOMAIN data /\ field \in DOMAIN data.dimensions
     /\ ~data.dimensions[field].nan /\ data.dimensions[field].n # 0
    THEN data.dimensions[field] ELSE fallback

\* The group pushed for the lead of 0-based index i: its position (x, 0, z),
\* its pin number and whether it is drawn selected.
Lead(i, pinCount, perSide, pitch, sw, sel) ==
  With(IF i < perSide THEN -1 ELSE 1, LAMBDA side :
  With(IF i < perSide THEN i ELSE pinCount - 1 - i, LAMBDA index :
    [x          |-> FMul(Int2F(side), FAdd(Half(sw), FMul(Q(3, 10), sc))),
     z          |-> FMul(FSub(Int2F(index), Half(Int2F(perSide - 1))), pitch),
     pinNum     |-> LeadPinNum(i),
     isSelected |-> sel = LeadPinNum(i)]))

\* const pins = useMemo(...) of ComponentModel: one group per lead, a
\* function of the data and the selectedPinNumber prop of the render
\* (view.model3d).
ComponentLeads(data, sel) ==
  With(LeadCount(data), LAMBDA pinCount :
  With(CeilHalf(pinCount), LAMBDA perSide :
  With(FMul(Nominal(data, "pitch", Q(127, 100)), sc), LAMBDA pitch :
  With(FMul(Nominal(data, "bodyWidth", Int2F(6)), sc), LAMBDA sw :
    [k \in 1..pinCount |-> Lead(k - 1, pinCount, perSide, pitch, sw, sel)]))))

\* ------------------------------------------------------------------------
\* VisualPreview: shared selection, what each child is given, the info panel
\* ------------------------------------------------------------------------

\* null, as a value no string is equal to.
Null == <<"null">>

\* JavaScript truthiness of a string | null.
Truthy(s) == s # Null /\ s # <<>>

NoPin == [pin_number |-> Null, pin_name |-> <<>>, electrical_type |-> "", description |-> ""]

\* A variant of the lookup below that falls back to the first pin.
FindPinOrFirst(pins, num) ==
  With({i \in 1..Len(pins) : pins[i].pin_number = num}, LAMBDA at :
    IF at = {} THEN (IF Len(pins) > 0 THEN pins[1] ELSE NoPin) ELSE pins[MinOf(at)])

\* Array.prototype.find on pin_number: the first pin with the number, NoPin
\* (undefined) when there is none.
FindPin(pins, num) ==
  With({i \in 1..Len(pins) : pins[i].pin_number = num}, LAMBDA at :
    IF at = {} THEN NoPin ELSE pins[MinOf(at)])

\* const selectedPinInfo = useMemo(...)
selectedPinInfo(data, sel) == IF ~Truthy(sel) THEN NoPin ELSE FindPin(data.pins, sel)

PinPlaceholder == <<"P", "I", "N", " ">>

\* The info panel of the returned tree: hidden unless selectedPinNumber is
\* truthy; name, type and description fall back to placeholders.
InfoPanel(data, sel) ==
  With(selectedPinInfo(data, sel), LAMBDA info :
    IF ~Truthy(sel)
      THEN [shown |-> FALSE, badge |-> Null, title |-> <<>>, type |-> "", description |-> ""]
      ELSE [shown       |-> TRUE,
            badge       |-> sel,
            title       |-> IF info.pin_name # <<>> THEN info.pin_name
                            ELSE PinPlaceholder \o sel,
            type        |-> IF info.electrical_type # "" THEN info.electrical_type
                            ELSE "Unknown Type",
            description |-> info.description])

\* The selectedPinNumber prop of each child and the panel, for one render.
Render(data, sel) ==
  [schematic |-> sel, footprint |-> sel, model3d |-> sel, panel |-> InfoPanel(data, sel)]

\* Nothing is rendered while VisualPreview is not mounted.
NoView == [schematic |-> Null, footprint |-> Null, model3d |-> Null,
           panel |-> InfoPanel([pins |-> <<>>], Null)]

\* ------------------------------------------------------------------------
\* The data objects the external generator can return
\* ------------------------------------------------------------------------

Pin(num, name, type, desc) ==
  [pin_number |-> num, pin_name |-> name, electrical_type |-> type, description |-> desc]

N0(k) == Dec(k, 0)

\* Four pins, four pads of 0.5 x 1.2 at (-2,0), (-2,1.27), (2,0), (2,1.27)
\* and one outline line; body width 4 and pitch 0.5.
Bundle1 ==
  [name     |-> <<"U", "1">>,
   pinCount |-> 4,
   pins     |-> <<Pin(<<"1">>, <<"V", "C", "C">>, "power_in", "supply"),
                  Pin(<<"2">>, <<"G", "N", "D">>, "power_in", "ground"),
                  Pin(<<"3">>, <<"O", "U", "T">>, "output", "output"),
                  Pin(<<"4">>, <<"I", "N">>, "input", "")>>,
   dimensions |-> [bodyWidth |-> Int2F(4), pitch |-> Q(1, 2)],
   kicadMod |-> WriteText(<<
                  JunkRec(<<"(", "f", "o", "o", "t", "p", "r", "i", "n", "t", " ", "X", "\n">>),
                  PadRec(<<"1">>, FALSE, <<N0(-2), N0(0)>>, <<Dec(5, 1), Dec(12, 1)>>),
                  PadRec(<<"2">>, FALSE, <<N0(-2), Dec(127, 2)>>, <<Dec(5, 1), Dec(12, 1)>>),
                  LineRec(<<N0(-3), N0(-2)>>, <<N0(3), N0(-2)>>),
                  PadRec(<<"3">>, TRUE, <<N0(2), N0(0)>>, <<Dec(5, 1), Dec(12, 1)>>),
                  PadRec(<<"4">>, TRUE, <<N0(2), Dec(127, 2), N0(90)>>, <<Dec(5, 1), Dec(12, 1)>>)>>)]

\* Two output pins, no pinCount; pad 8 lies inside pad 7, pad 9 has zero
\* width, no pin is numbered 7, 8 or 9.
Bundle2 ==
  [name     |-> <<>>,
   pinCount |-> 0,
   pins     |-> <<Pin(<<"1">>, <<"A">>, "output", "a"),
                  Pin(<<"2">>, <<"B">>, "output", "b")>>,
   kicadMod |-> WriteText(<<
                  PadRec(<<"7">>, FALSE, <<N0(0), N0(0)>>, <<N0(4), N0(4)>>),
                  PadRec(<<"8">>, TRUE, <<N0(1), N0(0)>>, <<N0(1), N0(1)>>),
                  PadRec(<<"9">>, FALSE, <<N0(4), N0(3)>>, <<N0(0), N0(1)>>),
                  PadRec(<<"2">>, FALSE, <<N0(-4), N0(0)>>, <<N0(1), N0(1)>>)>>)]

\* No pins and a text in which nothing matches.
Bundle3 ==
  [name     |-> <<"U", "3">>,
   pinCount |-> 2,
   pins     |-> <<>>,
   kicadMod |-> WriteText(<<JunkRec(<<"(", "p", "a", "d", ")", " ", "(", "a", "t", " ", "0", ")">>)>>)]

\* Two pins and their two pads.
Bundle4 ==
  [name     |-> <<"Q", "1">>,
   pinCount |-> 2,
   pins     |-> <<Pin(<<"1">>, <<"I", "N">>, "input", "in"),
                  Pin(<<"2">>, <<"O", "U", "T">>, "output", "out")>>,
   kicadMod |-> WriteText(<<
                  PadRec(<<"1">>, FALSE, <<N0(-1), N0(0)>>, <<N0(1), N0(1)>>),
                  PadRec(<<"2">>, FALSE, <<N0(1), N0(0)>>, <<N0(1), N0(1)>>)>>)]

\* One pin; the position of pad 2 has a field that is only "-".
Bundle5 ==
  [name     |-> <<"U", "5">>,
   pinCount |-> 1,
   pins     |-> <<Pin(<<"1">>, <<"A">>, "passive", "")>>,
   kicadMod |-> WriteText(<<
                  PadRec(<<"1">>, FALSE, <<N0(0), N0(0)>>, <<N0(1), N0(1)>>),
                  PadRec(<<"2">>, FALSE, <<Raw(<<"-">>), N0(0)>>, <<N0(1), N0(1)>>)>>)]

BundleSeq == <<Bundle1, Bundle2, Bundle3, Bundle4, Bundle5>>
Bundles == {BundleSeq[i] : i \in 1..Len(BundleSeq)}

\* The effect is a function of the text alone; for the texts of the bundles
\* above it is computed once and looked up afterwards.
BundleEffects == [i \in 1..Len(BundleSeq) |-> RunFootprint2DEffect(BundleSeq[i].kicadMod)]

Footprint2DEffect(kicadMod) ==
  With({i \in 1..Len(BundleSeq) : BundleSeq[i].kicadMod = kicadMod}, LAMBDA known :
    IF known = {} THEN RunFootprint2DEffect(kicadMod) ELSE BundleEffects[MinOf(known)])

\* result === null
NoData == [name |-> <<>>, pinCount |-> -1, pins |-> <<>>, kicadMod |-> <<>>]

\* ------------------------------------------------------------------------
\* State
\* ------------------------------------------------------------------------

VARIABLES
  file,               \* App: the selected File, or NoFile
  previewUrl,         \* App: the file whose data URL is held, or NoFile
  datasheetUrl,       \* App: the URL field
  userNotes,          \* App: the notes field
  metadata,           \* App: libraryName, footprintName, modelName
  isAnalyzing,        \* App
  error,              \* App: NoError or a message
  result,             \* App: the FootprintData shown, or NoData
  sources,            \* App: NoSources or the grounding chunks
  viewMode,           \* App: "visual" | "validation" | "code"
  readers,            \* the files whose FileReader has not fired loadend yet
  call,               \* the analyzeDatasheet call in flight: its arguments, and
                      \* result and sources of the render that started it
  selectedPinNumber,  \* VisualPreview: state of the mounted instance, else Null
  view,               \* VisualPreview: what the last render gave each child
  padsRef,            \* Footprint2D
  transformRef,       \* Footprint2D
  fpLines,            \* Footprint2D: the lines of the last effect run
  schCanvas,          \* SchematicSymbol2D: the canvas element
  effectsPending,     \* a render is committed and its effects have not run
  recs,               \* the records the generated footprint text was written from
  ev                  \* the last event handled

vars == <<file, previewUrl, datasheetUrl, userNotes, metadata, isAnalyzing, error,
          result, sources, viewMode, readers, call, selectedPinNumber, view,
          padsRef, transformRef, fpLines, schCanvas, effectsPending, recs, ev>>

appVars == <<file, previewUrl, datasheetUrl, userNotes, metadata, isAnalyzing, error,
             result, sources, viewMode, readers, call>>

NoFile == "none"
Files == {"a.pdf"}
FileType(f) == IF f = "a.pdf" THEN "application/pdf" ELSE "image/png"

Urls == {"", "http://x/ds.pdf"}
Notes == {"", "note"}
InitialMetadata ==
  [libraryName |-> "MyProject", footprintName |-> "PACKAGE_VARIANT",
   modelName |-> "PACKAGE_VARIANT"]
LibraryNames == {"MyProject", "Lib"}
FootprintNames == {"PACKAGE_VARIANT", "SOT23"}

NoError == "none"
UploadError == "Please upload a file or provide a datasheet URL."
DefaultError == "An error occurred during analysis."
\* err.message of a rejection: a message, or empty.
RejectMessages == {"", "Failed to receive content."}

NoSources == "none"
SourcesReturned == {NoSources, "chunks"}

NoCall == [previewUrl |-> "idle", mimeType |-> "idle", datasheetUrl |-> "idle",
           result |-> NoData, sources |-> NoSources]

ViewModes == {"visual", "validation", "code"}

\* An event without a pointer position or onPinSelect calls.
Event(kind) == [kind |-> kind, x |-> NaN, y |-> NaN, reports |-> <<>>]
ClickEvent(kind, x, y, reports) == [kind |-> kind, x |-> x, y |-> y, reports |-> reports]

\* <VisualPreview data={result} /> is in the tree.
Mounted(res, mode) == res # NoData /\ mode = "visual"

\* ------------------------------------------------------------------------
\* Rendering: what a state change of App or VisualPreview commits
\* ------------------------------------------------------------------------

\* A variant of the rule below in which the first call stands.
KeepFirstReport(cur, reports) == IF reports = <<>> THEN cur ELSE reports[1]

\* Several setSelectedPinNumber calls in one handler: the last one stands.
ApplyReports(cur, reports) == IF reports = <<>> THEN cur ELSE reports[Len(reports)]

\* The preview after App renders with (res, mode) and the selection request
\* sel of the handler that ran.  A VisualPreview that stays in the tree keeps
\* its state; one that was not in the tree before starts from useState(null)
\* and fresh refs and canvas; while none is in the tree there is no selection
\* (Null), no refs and no canvas.  The effects of the children run with
\* the commit (React flushes them before the next event is handled).
\* What a run of the effect of Footprint2D leaves behind.
StoreFootprint(eff) ==
  /\ padsRef' = eff.pads
  /\ transformRef' = eff.transform
  /\ fpLines' = eff.lines

PreviewCommit(res, mode, sel) ==
  LET was    == Mounted(result, viewMode)
      now    == Mounted(res, mode)
      newSel == IF was /\ now THEN sel ELSE Null
      rerun  == ~was \/ res.kicadMod # result.kicadMod \/ newSel # selectedPinNumber
  IN  /\ selectedPinNumber' = newSel
      /\ view' = IF now THEN Render(res, newSel) ELSE NoView
      /\ IF now /\ rerun
           THEN StoreFootprint(Footprint2DEffect(res.kicadMod))
         ELSE IF now
           THEN UNCHANGED <<padsRef, transformRef, fpLines>>
         ELSE /\ padsRef' = <<>>
              /\ transformRef' = InitialTransform
              /\ fpLines' = <<>>
      /\ schCanvas' = IF now
                        THEN SchematicEffect(IF was THEN schCanvas ELSE BlankSchCanvas,
                                             res.pins, newSel)
                        ELSE BlankSchCanvas
      /\ UNCHANGED <<effectsPending, recs>>

\* ------------------------------------------------------------------------
\* App
\* ------------------------------------------------------------------------

Init ==
  /\ file = NoFile
  /\ previewUrl = NoFile
  /\ datasheetUrl = ""
  /\ userNotes = ""
  /\ metadata = InitialMetadata
  /\ isAnalyzing = FALSE
  /\ error = NoError
  /\ result = NoData
  /\ sources = NoSources
  /\ viewMode = "visual"
  /\ readers = {}
  /\ call = NoCall
  /\ selectedPinNumber = Null
  /\ view = NoView
  /\ padsRef = <<>>
  /\ transformRef = InitialTransform
  /\ fpLines = <<>>
  /\ schCanvas = BlankSchCanvas
  /\ effectsPending = FALSE
  /\ recs = <<>>
  /\ ev = Event("init")

\* handleFileChange with a file chosen.
HandleFileChange(f) ==
  /\ file' = f
  /\ readers' = readers \cup {f}
  /\ result' = NoData
  /\ sources' = NoSources
  /\ PreviewCommit(NoData, viewMode, selectedPinNumber)
  /\ ev' = Event("app")
  /\ UNCHANGED <<previewUrl, datasheetUrl, userNotes, metadata, isAnalyzing, error,
                 viewMode, call>>

\* reader.onloadend: reader.result is the data URL, or null after a read error.
ReaderLoadEnd(f, ok) ==
  /\ f \in readers
  /\ readers' = readers \ {f}
  /\ previewUrl' = IF ok THEN f ELSE NoFile
  /\ PreviewCommit(result, viewMode, selectedPinNumber)
  /\ ev' = Event("app")
  /\ UNCHANGED <<file, datasheetUrl, userNotes, metadata, isAnalyzing, error, result,
                 sources, viewMode, call>>

SetDatasheetUrl(u) ==
  /\ u # datasheetUrl
  /\ datasheetUrl' = u
  /\ PreviewCommit(result, viewMode, selectedPinNumber)
  /\ ev' = Event("app")
  /\ UNCHANGED <<file, previewUrl, userNotes, metadata, isAnalyzing, error, result,
                 sources, viewMode, readers, call>>

SetUserNotes(n) ==
  /\ n # userNotes
  /\ userNotes' = n
  /\ PreviewCommit(result, viewMode, selectedPinNumber)
  /\ ev' = Event("app")
  /\ UNCHANGED <<file, previewUrl, datasheetUrl, metadata, isAnalyzing, error, result,
                 sources, viewMode, readers, call>>

\* setMetadata({...metadata, libraryName}) / setMetadata({...metadata, footprintName})
SetMetadata(field, v) ==
  /\ metadata[field] # v
  /\ metadata' = [metadata EXCEPT ![field] = v]
  /\ PreviewCommit(result, viewMode, selectedPinNumber)
  /\ ev' = Event("app")
  /\ UNCHANGED <<file, previewUrl, datasheetUrl, userNotes, isAnalyzing, error, result,
                 sources, viewMode, readers, call>>

\* The Generate button is enabled.
CanGenerate == (file # NoFile \/ datasheetUrl # "") /\ ~isAnalyzing

\* handleProcess up to the await: rejected without file content and URL,
\* otherwise the call is started with the state of this render.
HandleProcess ==
  /\ CanGenerate
  /\ IF previewUrl = NoFile /\ datasheetUrl = ""
       THEN /\ error' = UploadError
            /\ UNCHANGED <<isAnalyzing, call>>
       ELSE /\ isAnalyzing' = TRUE
            /\ error' = NoError
            /\ call' = [previewUrl   |-> previewUrl,
                        mimeType     |-> IF file = NoFile THEN NoFile ELSE FileType(file),
                        datasheetUrl |-> datasheetUrl,
                        result       |-> result,
                        sources      |-> sources]
  /\ PreviewCommit(result, viewMode, selectedPinNumber)
  /\ ev' = Event("app")
  /\ UNCHANGED <<file, previewUrl, datasheetUrl, userNotes, metadata, result, sources,
                 viewMode, readers>>

\* analyzeDatasheet resolves with { data, sources }.
AnalysisResolves(data, src) ==
  /\ call # NoCall
  /\ result' = data
  /\ sources' = src
  /\ viewMode' = "visual"
  /\ isAnalyzing' = FALSE
  /\ call' = NoCall
  /\ PreviewCommit(data, "visual", selectedPinNumber)
  /\ ev' = Event("resolved")
  /\ UNCHANGED <<file, previewUrl, datasheetUrl, userNotes, metadata, error, readers>>

\* analyzeDatasheet rejects.
AnalysisRejects(msg) ==
  /\ call # NoCall
  /\ error' = IF msg # "" THEN msg ELSE DefaultError
  /\ isAnalyzing' = FALSE
  /\ call' = NoCall
  /\ PreviewCommit(result, viewMode, selectedPinNumber)
  /\ ev' = Event("app")
  /\ UNCHANGED <<file, previewUrl, datasheetUrl, userNotes, metadata, result, sources,
                 viewMode, readers>>

\* A tab button; the tabs exist only while there is a result.
SetViewMode(m) ==
  /\ result # NoData
  /\ m # viewMode
  /\ viewMode' = m
  /\ PreviewCommit(result, m, selectedPinNumber)
  /\ ev' = Event("app")
  /\ UNCHANGED <<file, previewUrl, datasheetUrl, userNotes, metadata, isAnalyzing, error,
                 result, sources, readers, call>>

\* ------------------------------------------------------------------------
\* VisualPreview: pointer events
\* ------------------------------------------------------------------------

\* Where the canvas is shown: rect.left / rect.top and the factor by which
\* the displayed size is smaller than the canvas size.
Rects == {[left |-> 0, top |-> 0, shrink |-> 1], [left |-> 10, top |-> 20, shrink |-> 2]}

Pt(x, y) == [x |-> x, y |-> y]

\* A point of the canvas no pad or lead is near.
CornerPoint == Pt(Int2F(5), Int2F(5))

\* The screen position the stored transform gives to the centre of a pad.
PadCentre(pad, tr) ==
  Pt(FAdd(tr.centerX, FMul(pad.x, tr.scale)), FAdd(tr.centerY, FMul(pad.y, tr.scale)))

Finite(pt) == ~pt.x.nan /\ ~pt.y.nan

\* The pointer positions tried on the footprint canvas (canvas coordinates).
FootprintClickPoints ==
  {pt \in {PadCentre(padsRef[i], transformRef) : i \in 1..Len(padsRef)} : Finite(pt)}
  \cup {CornerPoint}

\* The pointer positions tried on the schematic canvas: every hit target, the
\* points midway between vertically adjacent targets, and the corner.
SidePoints(isLeft, n) ==
  With({SchTarget(schCanvas, isLeft, n, i) : i \in 0..(n - 1)}, LAMBDA targets :
    {Pt(tg.px, tg.py) : tg \in targets}
    \cup {Pt(tg.px, FAdd(tg.py, Half(Int2F(pinSpacing)))) : tg \in targets})

SchematicClickPoints ==
  With(Layout(result.pins), LAMBDA lay :
    SidePoints(TRUE, Len(lay.left)) \cup SidePoints(FALSE, Len(lay.right))
    \cup {CornerPoint})

\* The middle of a drawn lead.
LeadMiddle(lead) == Pt(Half(FAdd(lead.x, lead.outerX)), lead.y)

\* The pointer positions tried around one drawn lead: the middle of the
\* lead, 16 and half a pin spacing below it, the end at the box edge, and 19
\* beyond the outer end.
LeadPoints(lead) ==
  With(LeadMiddle(lead), LAMBDA mid :
    {mid,
     Pt(mid.x, FAdd(mid.y, Int2F(16))),
     Pt(mid.x, FAdd(mid.y, Half(Int2F(pinSpacing)))),
     Pt(lead.x, lead.y),
     Pt(FAdd(lead.outerX, FMul(FSub(lead.outerX, lead.x), Q(19, pinLen))), lead.y)})

\* Pointer positions relative to the leads the symbol canvas shows.
SymbolClickPoints ==
  UNION {LeadPoints(schCanvas.leads[k]) : k \in 1..Len(schCanvas.leads)} \cup {CornerPoint}

\* onClick of the Footprint2D canvas for a pointer at canvas point pt with the
\* canvas displayed at rect.
\* The clientX / clientY of a pointer over canvas coordinate c of a canvas
\* displayed at start and shrunk by the factor shrink.
ClientOf(c, start, shrink) == FAdd(Int2F(start), FDiv(c, Int2F(shrink)))

\* A handler made the onPinSelect calls reports for a click at canvas
\* position (x, y); VisualPreview renders with the resulting selection.
Select(kind, x, y, reports) ==
  /\ PreviewCommit(result, viewMode, ApplyReports(selectedPinNumber, reports))
  /\ ev' = ClickEvent(kind, x, y, reports)

\* const clickedPad = padsRef.current.find(...); if (clickedPad)
\* onPinSelect(clickedPad.num)
PadReports(pads, tr, x, y) ==
  With(FindPad(pads, tr, x, y, 1), LAMBDA i :
    IF i = 0 THEN <<>> ELSE <<pads[i].num>>)

FootprintClick(pt, rect) ==
  /\ Mounted(result, viewMode)
  /\ \E x \in {ClientToCanvas(ClientOf(pt.x, rect.left, rect.shrink), Int2F(rect.left),
                               FDiv(Int2F(FpCanvasSize), Int2F(rect.shrink)),
                               Int2F(FpCanvasSize))},
        y \in {ClientToCanvas(ClientOf(pt.y, rect.top, rect.shrink), Int2F(rect.top),
                               FDiv(Int2F(FpCanvasSize), Int2F(rect.shrink)),
                               Int2F(FpCanvasSize))} :
       Select("footprintClick", x, y, PadReports(padsRef, transformRef, x, y))
  /\ UNCHANGED appVars

\* onClick of the SchematicSymbol2D canvas:
\* x = (e.clientX - rect.left) * (canvas.width / rect.width), likewise y.
\* (client - rectStart) * (canvasSize / rectSize)
ClientToSchematic(client, rectStart, rectSize, canvasSize) ==
  FMul(FSub(client, rectStart), FDiv(canvasSize, rectSize))

SchematicClick(pt, rect) ==
  /\ Mounted(result, viewMode)
  /\ \E x \in {ClientToSchematic(ClientOf(pt.x, rect.left, rect.shrink), Int2F(rect.left),
                                  FDiv(Int2F(schCanvas.width), Int2F(rect.shrink)),
                                  Int2F(schCanvas.width))},
        y \in {ClientToSchematic(ClientOf(pt.y, rect.top, rect.shrink), Int2F(rect.top),
                                  FDiv(Int2F(schCanvas.height), Int2F(rect.shrink)),
                                  Int2F(schCanvas.height))} :
       Select("schematicClick", x, y, SchematicReports(schCanvas, result.pins, x, y))
  /\ UNCHANGED appVars

\* onClick of the group of the lead with 0-based index i.
LeadClick(i) ==
  /\ Mounted(result, viewMode)
  /\ i \in 0..(LeadCount(result) - 1)
  /\ Select("leadClick", NaN, NaN, <<LeadPinNum(i)>>)
  /\ UNCHANGED appVars

\* The dismiss button of the info panel.
Dismiss ==
  /\ Mounted(result, viewMode)
  /\ view.panel.shown
  /\ PreviewCommit(result, viewMode, Null)
  /\ ev' = Event("dismiss")
  /\ UNCHANGED appVars

\* ------------------------------------------------------------------------
\* Specifications
\* ------------------------------------------------------------------------

\* The data objects the model lets an analysis started from App return.
AppBundles == {Bundle3, Bundle4}

Next ==
  \/ \E f \in Files : HandleFileChange(f)
  \/ \E f \in Files, ok \in BOOLEAN : ReaderLoadEnd(f, ok)
  \/ \E u \in Urls : SetDatasheetUrl(u)
  \/ \E n \in Notes : SetUserNotes(n)
  \/ \E v \in LibraryNames : SetMetadata("libraryName", v)
  \/ \E v \in FootprintNames : SetMetadata("footprintName", v)
  \/ HandleProcess
  \/ \E data \in AppBundles, src \in SourcesReturned : AnalysisResolves(data, src)
  \/ \E msg \in RejectMessages : AnalysisRejects(msg)
  \/ \E m \in ViewModes : SetViewMode(m)
  \/ \E pt \in FootprintClickPoints, rect \in Rects : FootprintClick(pt, rect)
  \/ \E pt \in SchematicClickPoints, rect \in Rects : SchematicClick(pt, rect)
  \/ \E i \in 0..(LeadCount(result) - 1) : LeadClick(i)
  \/ Dismiss

Spec == Init /\ [][Next]_vars

\* The preview alone: the state after a first analysis started from the URL
\* field has resolved with any of the data objects, and from there the
\* pointer events of the preview and further analyses.
InitPreview ==
  /\ file = NoFile
  /\ previewUrl = NoFile
  /\ datasheetUrl \in Urls \ {""}
  /\ userNotes = ""
  /\ metadata = InitialMetadata
  /\ isAnalyzing = FALSE
  /\ error = NoError
  /\ result \in Bundles
  /\ sources = NoSources
  /\ viewMode = "visual"
  /\ readers = {}
  /\ call = NoCall
  /\ selectedPinNumber = Null
  /\ view = Render(result, Null)
  /\ padsRef = Footprint2DEffect(result.kicadMod).pads
  /\ transformRef = Footprint2DEffect(result.kicadMod).transform
  /\ fpLines = Footprint2DEffect(result.kicadMod).lines
  /\ schCanvas = SchematicEffect(BlankSchCanvas, result.pins, Null)
  /\ effectsPending = FALSE
  /\ recs = <<>>
  /\ ev = Event("resolved")

NextPreview ==
  \/ HandleProcess
  \/ \E data \in Bundles : AnalysisResolves(data, NoSources)
  \/ \E msg \in RejectMessages : AnalysisRejects(msg)
  \/ \E pt \in FootprintClickPoints, rect \in Rects : FootprintClick(pt, rect)
  \/ \E pt \in SchematicClickPoints \cup SymbolClickPoints, rect \in Rects :
       SchematicClick(pt, rect)
  \/ \E i \in 0..(LeadCount(result) - 1) : LeadClick(i)
  \/ Dismiss

SpecPreview == InitPreview /\ [][NextPreview]_vars

\* ------------------------------------------------------------------------
\* The parser on generated texts
\* ------------------------------------------------------------------------

\* The longest sequence of records a generated text is written from.
MaxRecs == 3

\* The records a generated text is made of: well-formed pads (plain and
\* quoted identifier, with and without rotation), a line, text that is no
\* record (it holds a position and a size sub-record of its own), a pad without position, a pad without size, a pad of non-positive
\* size, and a pad and a line with fields that are only "-" or ".".
RecChoices ==
  {PadRec(<<"1">>, FALSE, <<Dec(-2, 0), Dec(0, 0)>>, <<Dec(5, 1), Dec(12, 1)>>),
   PadRec(<<"A", "2">>, TRUE, <<Dec(2, 0), Dec(127, 2), Dec(90, 0)>>, <<Dec(1, 0), Dec(1, 0)>>),
   LineRec(<<Dec(-3, 0), Dec(-15, 1)>>, <<Dec(3, 0), Dec(-15, 1)>>),
   JunkRec(<<"(", "f", "p", "_", "t", "e", "x", "t", " ", "r", "e", "f", " ",
             "(", "a", "t", " ", "0", " ", "-", "2", ".", "5", ")", " ",
             "(", "s", "i", "z", "e", " ", "1", " ", "1", ")", ")", "\n">>),
   PadRec(<<"3">>, FALSE, <<>>, <<Dec(2, 0), Dec(2, 0)>>),
   PadRec(<<"4">>, FALSE, <<Dec(1, 0), Dec(1, 0)>>, <<>>),
   PadRec(<<"5">>, FALSE, <<Dec(0, 0), Dec(0, 0)>>, <<Dec(0, 0), Dec(-1, 0)>>),
   PadRec(<<"6">>, FALSE, <<Raw(<<"-">>), Raw(<<".">>)>>, <<Dec(1, 0), Dec(1, 0)>>),
   LineRec(<<Raw(<<".">>), Dec(0, 0)>>, <<Dec(1, 0), Raw(<<"-">>)>>)}

RecSeqs == UNION {[1..n -> RecChoices] : n \in 0..MaxRecs}

\* A data object around a generated text.
TextBundle(kicadMod) == [name |-> <<>>, pinCount |-> 0, pins |-> <<>>, kicadMod |-> kicadMod]

\* The preview has been rendered with the generated text and the effects of
\* its children have not run yet.
InitParse ==
  /\ file = NoFile
  /\ previewUrl = NoFile
  /\ datasheetUrl \in Urls \ {""}
  /\ userNotes = ""
  /\ metadata = InitialMetadata
  /\ isAnalyzing = FALSE
  /\ error = NoError
  /\ recs \in RecSeqs
  /\ result = TextBundle(WriteText(recs))
  /\ sources = NoSources
  /\ viewMode = "visual"
  /\ readers = {}
  /\ call = NoCall
  /\ selectedPinNumber = Null
  /\ view = Render(result, Null)
  /\ padsRef = <<>>
  /\ transformRef = InitialTransform
  /\ fpLines = <<>>
  /\ schCanvas = BlankSchCanvas
  /\ effectsPending = TRUE
  /\ ev = Event("resolved")

\* The effects of the first render run.
RunEffects ==
  /\ effectsPending
  /\ effectsPending' = FALSE
  /\ StoreFootprint(Footprint2DEffect(result.kicadMod))
  /\ schCanvas' = SchematicEffect(schCanvas, result.pins, selectedPinNumber)
  /\ UNCHANGED <<appVars, selectedPinNumber, view, recs, ev>>

NextParse == RunEffects

SpecParse == InitParse /\ [][NextParse]_vars

\* ------------------------------------------------------------------------
\* The symbol and the 3-D model on generated pin lists
\* ------------------------------------------------------------------------

\* PinInfo.electrical_type
ElectricalTypes ==
  {"input", "output", "bidirectional", "power_in", "power_out", "passive", "not_connected"}

\* The longest generated pin list.
MaxPins == 3

\* The pin lists of up to MaxPins pins, numbered 1, 2, ... in list order,
\* with every assignment of electrical types.
PinLists ==
  UNION {{[i \in 1..n |-> Pin(NatToString(i), <<"P">> \o NatToString(i), ty[i], "")] :
            ty \in [1..n -> ElectricalTypes]} : n \in 0..MaxPins}

\* The preview has been rendered with a generated pin list and the effects
\* of its children have not run yet.
InitSymbol ==
  /\ file = NoFile
  /\ previewUrl = NoFile
  /\ datasheetUrl \in Urls \ {""}
  /\ userNotes = ""
  /\ metadata = InitialMetadata
  /\ isAnalyzing = FALSE
  /\ error = NoError
  /\ recs = <<>>
  /\ result \in {[name |-> <<"U">>, pinCount |-> Len(ps), pins |-> ps, kicadMod |-> <<>>] :
                   ps \in PinLists}
  /\ sources = NoSources
  /\ viewMode = "visual"
  /\ readers = {}
  /\ call = NoCall
  /\ selectedPinNumber = Null
  /\ view = Render(result, Null)
  /\ padsRef = <<>>
  /\ transformRef = InitialTransform
  /\ fpLines = <<>>
  /\ schCanvas = BlankSchCanvas
  /\ effectsPending = TRUE
  /\ ev = Event("resolved")

\* The effects run, then clicks on the middle of a drawn lead.
NextSymbol ==
  \/ RunEffects
  \/ ~effectsPending /\ \E k \in 1..Len(schCanvas.leads), rect \in Rects :
                           SchematicClick(LeadMiddle(schCanvas.leads[k]), rect)

SpecSymbol == InitSymbol /\ [][NextSymbol]_vars

\* ------------------------------------------------------------------------
\* File selection, file reading and analysis with two files
\* ------------------------------------------------------------------------

\* Two files of different MIME types (accept="image/*,application/pdf").
UploadFiles == {"a.pdf", "b.png"}

\* App from its first render: file selections, the loadend of any pending
\* FileReader in any order, the URL field, Generate, and the settling of the
\* analysis in flight.
NextUpload ==
  \/ \E f \in UploadFiles : HandleFileChange(f)
  \/ \E f \in UploadFiles, ok \in BOOLEAN : ReaderLoadEnd(f, ok)
  \/ \E u \in Urls : SetDatasheetUrl(u)
  \/ HandleProcess
  \/ \E src \in SourcesReturned : AnalysisResolves(Bundle3, src)
  \/ \E msg \in RejectMessages : AnalysisRejects(msg)

SpecUpload == Init /\ [][NextUpload]_vars

\* ------------------------------------------------------------------------
\* Properties
\* ------------------------------------------------------------------------

\* The pin list of the data shown has no entry with the selected number.
NoSuchPin ==
  \A i \in 1..Len(result.pins) : result.pins[i].pin_number # selectedPinNumber

\* C1: within one preview instance there is one selectedPinNumber: the
\* schematic, the footprint view, the 3-D model and the info panel are all
\* given that value in every state, and after a handler in which a renderer
\* reported pin numbers the selection is the number reported last, whatever
\* was selected before.
C1_SharedSelection ==
  /\ Mounted(result, viewMode) =>
       /\ view.schematic = selectedPinNumber
       /\ view.footprint = selectedPinNumber
       /\ view.model3d = selectedPinNumber
       /\ view.panel.shown = Truthy(selectedPinNumber)
       /\ view.panel.shown => view.panel.badge = selectedPinNumber
  /\ ev.reports # <<>> => selectedPinNumber = ev.reports[Len(ev.reports)]

\* One click on the schematic reported two different pins; the second stands
\* and every child is given it.
C1_Witness ==
  /\ ev.kind = "schematicClick"
  /\ Len(ev.reports) = 2
  /\ ev.reports[1] # ev.reports[2]
  /\ selectedPinNumber = ev.reports[2]
  /\ view.model3d = ev.reports[2]
  /\ view.panel.badge = ev.reports[2]

\* |a| for a number a.
FAbs(a) == IF a.nan THEN NaN ELSE Q(Abs(a.n), a.d)

\* In board coordinates, the rectangle of pad q contains the centre of pad p.
CoversCentre(q, p) ==
  /\ FLeq(FMul(Int2F(2), FAbs(FSub(p.x, q.x))), q.width)
  /\ FLeq(FMul(Int2F(2), FAbs(FSub(p.y, q.y))), q.height)

PositiveSize(p) == FGt(p.width, Int2F(0)) /\ FGt(p.height, Int2F(0))

\* The last event was a click on the footprint canvas at the screen position
\* of the centre of pad i.
ClickedCentreOf(i) ==
  /\ ev.kind = "footprintClick"
  /\ PositiveSize(padsRef[i])
  /\ PadCentre(padsRef[i], transformRef) = Pt(ev.x, ev.y)

\* C2: a click at the screen position the stored transform gives to the
\* centre of a pad of positive width and height selects the number of the
\* first pad, in parse order, whose rectangle contains that point, which is
\* the clicked pad's own number when no earlier pad covers its centre; and
\* the pads and the transform the hit-test reads are those of the effect run
\* for the footprint text shown.
C2_CentreClickSelectsFirstContaining ==
  /\ Mounted(result, viewMode) =>
       /\ padsRef = Footprint2DEffect(result.kicadMod).pads
       /\ transformRef = Footprint2DEffect(result.kicadMod).transform
  /\ \A i \in 1..Len(padsRef) :
       ClickedCentreOf(i) =>
         /\ selectedPinNumber =
              padsRef[MinOf({j \in 1..Len(padsRef) : CoversCentre(padsRef[j], padsRef[i])})].num
         /\ (\A j \in 1..(i - 1) : ~CoversCentre(padsRef[j], padsRef[i]))
              => selectedPinNumber = padsRef[i].num

\* The centre of a pad that lies inside an earlier pad was clicked and the
\* earlier pad's number was selected.
C2_Witness ==
  \E i \in 1..Len(padsRef) :
    /\ ClickedCentreOf(i)
    /\ \E j \in 1..(i - 1) :
         /\ CoversCentre(padsRef[j], padsRef[i])
         /\ selectedPinNumber = padsRef[j].num
         /\ padsRef[j].num # padsRef[i].num

\* C3: after a click on the schematic or on the footprint canvas that hit no
\* lead target and no pad rectangle, selectedPinNumber is null.
C3_EmptyClickClears ==
  (ev.kind \in {"schematicClick", "footprintClick"} /\ ev.reports = <<>>)
    => selectedPinNumber = Null

\* C4: a step in which an analysis resolves and replaces result with another
\* data object leaves selectedPinNumber null.
C4_NewBundleResets ==
  [][(ev'.kind = "resolved" /\ result' # result) => selectedPinNumber' = Null]_vars

\* C5: while the same data object stays loaded, a step of App (a form edit, a
\* tab change, a file read ending, the start or the failure of an analysis)
\* leaves selectedPinNumber unchanged.
C5_OnlyHitsAndDismissChangeSelection ==
  [][(ev'.kind = "app" /\ result # NoData /\ result' = result)
       => selectedPinNumber' = selectedPinNumber]_vars

\* C6, as the program has it: when selectedPinNumber is non-null and no pin
\* of the list has that number, the info panel is shown with the selected
\* number, the placeholder name "PIN <number>", the placeholder type
\* "Unknown Type" and no description.
C6_UnknownPinShowsPlaceholders ==
  (Mounted(result, viewMode) /\ selectedPinNumber # Null /\ NoSuchPin) =>
    /\ view.panel.shown
    /\ view.panel.badge = selectedPinNumber
    /\ view.panel.title = PinPlaceholder \o selectedPinNumber
    /\ view.panel.type = "Unknown Type"
    /\ view.panel.description = ""

\* Pad 7 of a footprint whose pins are numbered 1 and 2 is selected and the
\* panel shows the placeholders.
C6_Witness ==
  /\ selectedPinNumber = <<"7">>
  /\ NoSuchPin
  /\ Len(result.pins) > 0
  /\ view.panel.shown
  /\ view.panel.title = <<"P", "I", "N", " ", "7">>

\* C6 as stated: when selectedPinNumber is non-null and no pin of the list
\* has that number, the info panel is presented exactly as when
\* selectedPinNumber is null.
C6_UnknownPinAsNoSelection ==
  (Mounted(result, viewMode) /\ selectedPinNumber # Null /\ NoSuchPin) =>
    view.panel = InfoPanel(result, Null)

\* Every field of a sub-record is a decimal numeral.
AllDecimal(fs) == \A i \in 1..Len(fs) : ~fs[i].raw

\* A pad record with a position sub-record of two or three decimal numerals
\* and a size sub-record of two, a line record with decimal start and end, or
\* text that is no record.
WellFormed(r) ==
  CASE r.k = "pad"  -> /\ Len(r.at) \in {2, 3} /\ AllDecimal(r.at)
                       /\ Len(r.size) = 2 /\ AllDecimal(r.size)
    [] r.k = "line" -> /\ Len(r.from) = 2 /\ AllDecimal(r.from)
                       /\ Len(r.to) = 2 /\ AllDecimal(r.to)
    [] r.k = "junk" -> TRUE

\* A pad record that lacks its position or its size sub-record.
Incomplete(r) ==
  /\ r.k = "pad"
  /\ r.at = <<>> \/ r.size = <<>>
  /\ AllDecimal(r.at) /\ AllDecimal(r.size)

\* A record that is complete and has a field that is no decimal numeral.
Unparsable(r) ==
  \/ r.k = "pad" /\ Len(r.at) \in {2, 3} /\ Len(r.size) = 2
       /\ ~(AllDecimal(r.at) /\ AllDecimal(r.size))
  \/ r.k = "line" /\ Len(r.from) = 2 /\ Len(r.to) = 2
       /\ ~(AllDecimal(r.from) /\ AllDecimal(r.to))

\* The value a field stands for, 0 for a field that is no decimal numeral.
ValueOrZero(f) == IF f.raw THEN Int2F(0) ELSE DecValue(f)

\* The pad and the line a complete record describes.
PadOfRecord(r) ==
  [num    |-> r.id,
   x      |-> ValueOrZero(r.at[1]),
   y      |-> ValueOrZero(r.at[2]),
   width  |-> ValueOrZero(r.size[1]),
   height |-> ValueOrZero(r.size[2])]

LineOfRecord(r) ==
  [x1 |-> ValueOrZero(r.from[1]), y1 |-> ValueOrZero(r.from[2]),
   x2 |-> ValueOrZero(r.to[1]),   y2 |-> ValueOrZero(r.to[2])]

PadsOfRecords(rs) == MapSeq(SelectSeq(rs, LAMBDA r : r.k = "pad"), PadOfRecord)
LinesOfRecords(rs) == MapSeq(SelectSeq(rs, LAMBDA r : r.k = "line"), LineOfRecord)

\* The effect has run on the text written from recs.
Parsed == ~effectsPending /\ result.kicadMod = WriteText(recs)

\* C7: for a text of well-formed pad and line records interleaved with other
\* text, the parser returns one pad per pad record and one line per line
\* record, in text order, each pad with its identifier without quotes, the
\* first two numbers of its position and the two numbers of its size, each
\* line with its start and end coordinates.
C7_WellFormedRecordsParsed ==
  (Parsed /\ \A i \in 1..Len(recs) : WellFormed(recs[i])) =>
    /\ padsRef = PadsOfRecords(recs)
    /\ fpLines = LinesOfRecords(recs)

\* A quoted pad with a rotation, a line and other text were parsed to one
\* pad and one line.
C7_Witness ==
  /\ Parsed
  /\ \A i \in 1..Len(recs) : WellFormed(recs[i])
  /\ \E i \in 1..Len(recs) : recs[i].k = "pad" /\ recs[i].quoted /\ Len(recs[i].at) = 3
  /\ \E i \in 1..Len(recs) : recs[i].k = "line"
  /\ \E i \in 1..Len(recs) : recs[i].k = "junk"
  /\ Len(padsRef) = 1 /\ padsRef[1].num = <<"A", "2">>
  /\ Len(fpLines) = 1

\* C8: for a text of well-formed records and pad records that lack their
\* position or size sub-record, the parser returns exactly the pads of the
\* well-formed pad records, each with its own fields.
C8_IncompleteRecordsSkipped ==
  (Parsed /\ \A i \in 1..Len(recs) : WellFormed(recs[i]) \/ Incomplete(recs[i])) =>
    padsRef = PadsOfRecords(SelectSeq(recs, WellFormed))

\* C9: every pad the footprint view keeps after parsing a text has
\* width > 0 and height > 0.
C9_KeptPadsPositive ==
  Parsed => \A i \in 1..Len(padsRef) : PositiveSize(padsRef[i])

\* C10: for a text of complete records, some with fields that are no decimal
\* numeral, every record is still returned, the coordinate of such a field is
\* 0 and no pad or line holds NaN.
C10_UnparsableFieldIsZero ==
  (Parsed /\ \A i \in 1..Len(recs) : WellFormed(recs[i]) \/ Unparsable(recs[i])) =>
    /\ padsRef = PadsOfRecords(recs)
    /\ fpLines = LinesOfRecords(recs)

\* a === b for numbers: false when either is NaN.
FEq(a, b) == ~a.nan /\ ~b.nan /\ a = b

\* The least and the greatest number of a non-empty set, NaN when the set
\* holds NaN.
LeastOf(S) ==
  IF \E m \in S : \A v \in S : FLeq(m, v)
    THEN CHOOSE m \in S : \A v \in S : FLeq(m, v) ELSE NaN
GreatestOf(S) ==
  IF \E m \in S : \A v \in S : FLeq(v, m)
    THEN CHOOSE m \in S : \A v \in S : FLeq(v, m) ELSE NaN

\* The x and the y coordinates of the geometry kept: every pad's centre plus
\* and minus half its size, and every line endpoint.
GeometryXs ==
  {FSub(padsRef[i].x, Half(padsRef[i].width)) : i \in 1..Len(padsRef)}
  \cup {FAdd(padsRef[i].x, Half(padsRef[i].width)) : i \in 1..Len(padsRef)}
  \cup {fpLines[i].x1 : i \in 1..Len(fpLines)} \cup {fpLines[i].x2 : i \in 1..Len(fpLines)}
GeometryYs ==
  {FSub(padsRef[i].y, Half(padsRef[i].height)) : i \in 1..Len(padsRef)}
  \cup {FAdd(padsRef[i].y, Half(padsRef[i].height)) : i \in 1..Len(padsRef)}
  \cup {fpLines[i].y1 : i \in 1..Len(fpLines)} \cup {fpLines[i].y2 : i \in 1..Len(fpLines)}

\* The screen coordinate of board coordinate c under an origin and a scale.
ToScreen(c, origin, scale) == FAdd(origin, FMul(c, scale))

OnCanvas(v) == FGeq(v, Int2F(0)) /\ FLeq(v, Int2F(400))

\* The stored transform fits the box [lo, hi] of one axis, expanded by 1.5 on
\* both sides, with the given origin: the scale is at most 360 / extent, the
\* box centre maps to 200 and every coordinate of the axis maps on the canvas.
AxisFits(cs, lo, hi, origin, scale) ==
  /\ FLeq(scale, FDiv(Int2F(360), FAdd(FSub(hi, lo), Int2F(3))))
  /\ FEq(ToScreen(Half(FAdd(lo, hi)), origin, scale), Int2F(200))
  /\ \A c \in cs : OnCanvas(ToScreen(c, origin, scale))

\* The scale is exactly the fit of the axis [lo, hi].
AxisTight(lo, hi, scale) ==
  FEq(scale, FDiv(Int2F(360), FAdd(FSub(hi, lo), Int2F(3))))

\* C11: for every non-empty parsed geometry, with the bounding box the union
\* of every pad's centre plus and minus half its size and every line
\* endpoint, expanded by 1.5 on all sides, the stored transform has
\* scale = min(360 / boxWidth, 360 / boxHeight), maps the box centre to
\* (200, 200) and maps every pad rectangle and line endpoint on the canvas.
C11_TransformFitsBox ==
  (Parsed /\ (padsRef # <<>> \/ fpLines # <<>>)) =>
    /\ AxisFits(GeometryXs, LeastOf(GeometryXs), GreatestOf(GeometryXs),
                transformRef.centerX, transformRef.scale)
    /\ AxisFits(GeometryYs, LeastOf(GeometryYs), GreatestOf(GeometryYs),
                transformRef.centerY, transformRef.scale)
    /\ \/ AxisTight(LeastOf(GeometryXs), GreatestOf(GeometryXs), transformRef.scale)
       \/ AxisTight(LeastOf(GeometryYs), GreatestOf(GeometryYs), transformRef.scale)

\* C12: for the empty text and for every text without a pad or a line record,
\* parsing yields no pad and no line, and whenever nothing was parsed the
\* transform is that of the box [-5, 5] x [-5, 5]: scale 360 / 10, finite and
\* positive, with the board origin at the canvas centre (200, 200).
C12_NoMatchUsesFallback ==
  Parsed =>
    /\ (\A i \in 1..Len(recs) : recs[i].k = "junk") => (padsRef = <<>> /\ fpLines = <<>>)
    /\ (padsRef = <<>> /\ fpLines = <<>>) =>
         /\ FEq(transformRef.scale, FDiv(Int2F(360), Int2F(10)))
         /\ FGt(transformRef.scale, Int2F(0))
         /\ FEq(ToScreen(Int2F(0), transformRef.centerX, transformRef.scale), Int2F(200))
         /\ FEq(ToScreen(Int2F(0), transformRef.centerY, transformRef.scale), Int2F(200))

\* A text of other text and a pad record without position was parsed to
\* nothing and the fallback transform stored.
C12_Witness ==
  /\ Parsed
  /\ \E i \in 1..Len(recs) : recs[i].k = "junk"
  /\ \E i \in 1..Len(recs) : Incomplete(recs[i])
  /\ padsRef = <<>> /\ fpLines = <<>>
  /\ transformRef.scale = Int2F(36)

\* The symbol has been drawn for the pin list shown, which is not empty.
Drawn == Mounted(result, viewMode) /\ ~effectsPending /\ result.pins # <<>>

\* The electrical roles that default to the left and to the right side.
GoesLeft(p) == p.electrical_type \in {"input", "bidirectional", "passive", "power_in"}
GoesRight(p) == p.electrical_type \in {"output", "power_out", "not_connected"}

\* The position in the pin list of the pin with the given number.
PinIndexOf(num) ==
  CHOOSE i \in 1..Len(result.pins) : result.pins[i].pin_number = num

\* The pin numbers of the drawn leads, in drawing order.
DrawnNums == [k \in 1..Len(schCanvas.leads) |-> schCanvas.leads[k].num]

\* Two leads of the same side are drawn in the order of the pin list, the
\* earlier pin above the later.
SideOrderKept ==
  \A j, k \in 1..Len(schCanvas.leads) :
    (j < k /\ schCanvas.leads[j].isLeft = schCanvas.leads[k].isLeft) =>
      /\ PinIndexOf(schCanvas.leads[j].num) < PinIndexOf(schCanvas.leads[k].num)
      /\ FLt(schCanvas.leads[j].y, schCanvas.leads[k].y)

\* The last event was a click on the middle of the k-th drawn lead.
ClickedLead(k) ==
  ev.kind = "schematicClick" /\ LeadMiddle(schCanvas.leads[k]) = Pt(ev.x, ev.y)

\* The hit-test places its targets as the leads are drawn: a click on the
\* middle of a drawn lead reported that lead's pin and no other.
HitTestFollowsDrawing ==
  \A k \in 1..Len(schCanvas.leads) :
    ClickedLead(k) => ev.reports = <<schCanvas.leads[k].num>>

\* C13: the layout is a partition of the pin list (every pin is drawn as
\* exactly one lead, and the hit-test has a target for it where it is drawn);
\* when pins of both role groups are present, the left side holds exactly the
\* pins of role input, bidirectional, passive or power_in and the right side
\* exactly the pins of role output, power_out or not_connected, each side in
\* list order.
C13_LayoutPartitionsPins ==
  Drawn =>
    /\ Len(schCanvas.leads) = Len(result.pins)
    /\ \A i \in 1..Len(result.pins) :
         Cardinality({k \in 1..Len(schCanvas.leads) :
                        schCanvas.leads[k].num = result.pins[i].pin_number}) = 1
    /\ HitTestFollowsDrawing
    /\ ((\E i \in 1..Len(result.pins) : GoesLeft(result.pins[i]))
        /\ (\E i \in 1..Len(result.pins) : ~GoesLeft(result.pins[i]))) =>
         /\ \A k \in 1..Len(schCanvas.leads) :
              /\ schCanvas.leads[k].isLeft
                   <=> GoesLeft(result.pins[PinIndexOf(schCanvas.leads[k].num)])
              /\ ~schCanvas.leads[k].isLeft
                   <=> GoesRight(result.pins[PinIndexOf(schCanvas.leads[k].num)])
         /\ SideOrderKept

\* Pins power_in, output, passive: leads 1 and 3 are drawn on the left, lead
\* 2 on the right, and a click on lead 3 selected pin 3.
C13_Witness ==
  /\ Drawn
  /\ [i \in 1..Len(result.pins) |-> result.pins[i].electrical_type]
       = <<"power_in", "output", "passive">>
  /\ DrawnNums = <<<<"1">>, <<"3">>, <<"2">>>>
  /\ schCanvas.leads[2].isLeft /\ ~schCanvas.leads[3].isLeft
  /\ ClickedLead(2)
  /\ selectedPinNumber = <<"3">>

\* Every pin of the list defaults to the same side.
AllOneSide ==
  \/ \A i \in 1..Len(result.pins) : GoesLeft(result.pins[i])
  \/ \A i \in 1..Len(result.pins) : GoesRight(result.pins[i])

\* C14: for k >= 2 pins that all default to the same side, the originally
\* empty side holds exactly the first ceil(k/2) pins of the list and the
\* other side the remaining floor(k/2), each in list order.
C14_RebalanceMovesFirstHalf ==
  (Drawn /\ Len(result.pins) >= 2 /\ AllOneSide) =>
    /\ \E m \in 1..Len(result.pins) :
         /\ 2 * m >= Len(result.pins) /\ 2 * (m - 1) < Len(result.pins)
         /\ \A k \in 1..Len(schCanvas.leads) :
              (schCanvas.leads[k].isLeft = GoesRight(result.pins[1]))
                <=> PinIndexOf(schCanvas.leads[k].num) <= m
    /\ Len(schCanvas.leads) = Len(result.pins)
    /\ SideOrderKept

\* Three pins that all default to the right: the first two are drawn on the
\* left, the third on the right.
C14_Witness ==
  /\ Drawn
  /\ Len(result.pins) = 3
  /\ \A i \in 1..3 : GoesRight(result.pins[i])
  /\ DrawnNums = <<<<"1">>, <<"2">>, <<"3">>>>
  /\ schCanvas.leads[1].isLeft /\ schCanvas.leads[2].isLeft /\ ~schCanvas.leads[3].isLeft

\* C15: for every pin list of more than one pin, at least one lead is drawn
\* on the left and at least one on the right, and the hit-test has its
\* targets on the leads as drawn.
C15_NoEmptySide ==
  (Drawn /\ Len(result.pins) > 1) =>
    /\ \E k \in 1..Len(schCanvas.leads) : schCanvas.leads[k].isLeft
    /\ \E k \in 1..Len(schCanvas.leads) : ~schCanvas.leads[k].isLeft
    /\ HitTestFollowsDrawing

\* Two pins that default to the left: a click on the right of the box hit
\* a target and selected pin 1.
C15_Witness ==
  /\ Drawn
  /\ Len(result.pins) = 2
  /\ \A i \in 1..2 : GoesLeft(result.pins[i])
  /\ \E k \in 1..Len(schCanvas.leads) : ClickedLead(k) /\ ~schCanvas.leads[k].isLeft
  /\ FGt(ev.x, Int2F(200))
  /\ selectedPinNumber = <<"1">>

\* C16: a pin list of exactly one pin is not rebalanced: its lead is drawn,
\* and its hit target lies, on the left for a role of input, bidirectional,
\* passive or power_in and on the right for output, power_out or
\* not_connected.
C16_SinglePinKeepsItsSide ==
  (Drawn /\ Len(result.pins) = 1) =>
    /\ Len(schCanvas.leads) = 1
    /\ schCanvas.leads[1].isLeft <=> GoesLeft(result.pins[1])
    /\ ~schCanvas.leads[1].isLeft <=> GoesRight(result.pins[1])
    /\ (ev.kind = "schematicClick" /\ ev.reports # <<>>) =>
         (FLt(ev.x, Int2F(200)) <=> GoesLeft(result.pins[1]))

\* The point (x, y) is nearer than r to the point (px, py).
Nearer(x, y, px, py, r) ==
  FLt(FAdd(FMul(FSub(x, px), FSub(x, px)), FMul(FSub(y, py), FSub(y, py))), Int2F(r * r))

\* The last click was within radius 20 of the outer end of the k-th drawn lead.
NearOuterEnd(k) ==
  Nearer(ev.x, ev.y, schCanvas.leads[k].outerX, schCanvas.leads[k].y, 20)

\* C17: the hit target of a pin is the circle of radius 20 around the outer
\* end of its drawn lead (box edge plus or minus 30, at the slot's height):
\* a click farther than that from every outer end reports no pin, and after
\* a click within that radius of some outer end the pin of such a lead is
\* selected.
C17_TargetIsOuterEnd ==
  (Mounted(result, viewMode) /\ ev.kind = "schematicClick" /\ result.pins # <<>>) =>
    /\ (\A k \in 1..Len(schCanvas.leads) : ~NearOuterEnd(k)) => ev.reports = <<>>
    /\ (\E k \in 1..Len(schCanvas.leads) : NearOuterEnd(k)) =>
         \E k \in 1..Len(schCanvas.leads) :
           NearOuterEnd(k) /\ selectedPinNumber = schCanvas.leads[k].num

\* The drawn lead of the pin with the given number.
LeadOf(num) ==
  schCanvas.leads[CHOOSE k \in 1..Len(schCanvas.leads) : schCanvas.leads[k].num = num]

\* The r-th pin reported by the last click is at least as near to the click
\* as the q-th (squared distances to the outer ends of their leads).
AtLeastAsNear(r, q) ==
  FLeq(FAdd(FMul(FSub(ev.x, LeadOf(ev.reports[r]).outerX), FSub(ev.x, LeadOf(ev.reports[r]).outerX)),
            FMul(FSub(ev.y, LeadOf(ev.reports[r]).y), FSub(ev.y, LeadOf(ev.reports[r]).y))),
       FAdd(FMul(FSub(ev.x, LeadOf(ev.reports[q]).outerX), FSub(ev.x, LeadOf(ev.reports[q]).outerX)),
            FMul(FSub(ev.y, LeadOf(ev.reports[q]).y), FSub(ev.y, LeadOf(ev.reports[q]).y))))

\* C18: after a click within the hit radius of the targets of several pins,
\* the pin selected is the nearest of them, the first in iteration order
\* among equally near ones.
C18_NearestOfOverlappingTargets ==
  (Mounted(result, viewMode) /\ ev.kind = "schematicClick" /\ Len(ev.reports) >= 2) =>
    selectedPinNumber =
      ev.reports[MinOf({r \in 1..Len(ev.reports) :
                          \A q \in 1..Len(ev.reports) : AtLeastAsNear(r, q)})]

\* The leads the 3-D model holds for the data shown and the selection it was
\* given in the last render.
ModelLeads == ComponentLeads(result, view.model3d)

\* The leads of the 3-D model on the edge at negative x and at positive x.
LeadsAtNegativeX == {k \in 1..Len(ModelLeads) : FLt(ModelLeads[k].x, Int2F(0))}
LeadsAtPositiveX == {k \in 1..Len(ModelLeads) : FGt(ModelLeads[k].x, Int2F(0))}

\* C19: after a click on a lead of the 3-D model, the model holds exactly
\* pinCount leads, ceil(pinCount/2) of them on one edge and the rest on the
\* other, no two at the same position; the lead of 0-based index i is
\* highlighted exactly when selectedPinNumber is the string of i+1; and the
\* click reported the number of one of these leads.
C19_LeadsOfModel ==
  (Mounted(result, viewMode) /\ ev.kind = "leadClick") =>
    /\ Len(ModelLeads) = result.pinCount
    /\ 2 * Cardinality(LeadsAtNegativeX) \in {result.pinCount, result.pinCount + 1}
    /\ Cardinality(LeadsAtNegativeX) + Cardinality(LeadsAtPositiveX) = result.pinCount
    /\ \A j, k \in 1..Len(ModelLeads) :
         j # k => <<ModelLeads[j].x, ModelLeads[j].z>> # <<ModelLeads[k].x, ModelLeads[k].z>>
    /\ \A k \in 1..Len(ModelLeads) :
         ModelLeads[k].isSelected <=> selectedPinNumber = NatToString(k)
    /\ \E k \in 1..result.pinCount : ev.reports = <<NatToString(k)>>

\* C20: while the pin list of the data shown is empty, the symbol canvas
\* holds no lead, and a click on it reports no pin.
C20_EmptyPinListDrawsNothing ==
  (Mounted(result, viewMode) /\ result.pins = <<>>) =>
    /\ schCanvas.leads = <<>>
    /\ ev.kind = "schematicClick" => ev.reports = <<>>

\* file?.type || null for the file selected now.
SelectedType == IF file = NoFile THEN NoFile ELSE FileType(file)

\* C21: a run of handleProcess while a file is selected is not rejected with
\* the upload error, and the call it starts carries the content of the
\* selected file together with that file's MIME type.
C21_GenerateSendsSelectedFile ==
  [][(HandleProcess /\ file # NoFile) =>
       /\ error' # UploadError
       /\ call'.previewUrl = file
       /\ call'.mimeType = FileType(file)]_vars

\* C22: an analysis whose file argument is not the file selected now was
\* in flight when the file changed; when it resolves, result stays null.
C22_StaleResultNotShown ==
  [][(ev'.kind = "resolved" /\ call.mimeType # SelectedType) => result' = NoData]_vars

\* The analysis in flight settles in this step, by rejecting.
Rejected == call # NoCall /\ call' = NoCall /\ ev'.kind # "resolved"

\* C23: the step in which the analysis in flight settles, resolving or
\* rejecting, leaves isAnalyzing false; after a rejection error is a
\* non-empty message and result and sources are those of the render that
\* started the call; and a run of handleProcess with neither file content
\* nor a URL sets error and starts no analysis.
C23_AnalysisSettles ==
  [][/\ (call # NoCall /\ call' = NoCall) => ~isAnalyzing'
     /\ Rejected =>
          /\ error' \notin {NoError, ""}
          /\ result' = call.result
          /\ sources' = call.sources
     /\ (HandleProcess /\ previewUrl = NoFile /\ datasheetUrl = "") =>
          /\ error' # NoError
          /\ ~isAnalyzing'
          /\ call' = NoCall]_vars

====
